---- MODULE Spec2Model ----
(***************************************************************************)
(* Mueller's root-finding demonstration (main, function, sign) as a state *)
(* machine.  The program is sequential: pc is the position in main.        *)
(*                                                                         *)
(* Numbers.  A C++ double is modelled by a small binary fixed-point format *)
(* with the IEEE special values: a finite value is an integer count of     *)
(* 1/Scale units of magnitude at most MaxRaw, a result beyond that range   *)
(* is +inf or -inf, and inf - inf, 0 * inf, 0 / 0, inf / inf and the root  *)
(* of a negative number are NaN.  Every arithmetic operation rounds toward *)
(* zero.  Signed zeros are not distinguished.  The format keeps what the   *)
(* program's control flow depends on (finite precision, overflow, NaN      *)
(* failing every comparison); it does not reproduce 53-bit results.        *)
(* FracBits + RawBits stays below 31 so that every intermediate fits.      *)
(***************************************************************************)
EXTENDS Integers, Sequences, FiniteSets

\* ------------------------------------------------------------- bounds

\* Fraction bits of the number format: the resolution is 1 / 2^FracBits.
FracBits == 8

\* Magnitude bits of the number format: finite raw values lie in
\* -2^RawBits .. 2^RawBits.
RawBits == 20

\* The largest iteration count the model runs the solve for.
MaxUsrIters == 7

Scale == 2 ^ FracBits

MaxRaw == 2 ^ RawBits

\* ------------------------------------------------- program constants

MAX_ITERATIONS == 1000000

MAX_TOLERANCES == 40

\* ------------------------------------------------------------ doubles

NaN == [k |-> "nan", v |-> 0]

Inf(sgn) == [k |-> "inf", v |-> sgn]

\* The double nearest zero-ward to raw / Scale; overflow gives an infinity.
Fin(raw) ==
  IF raw > MaxRaw THEN Inf(1)
  ELSE IF raw < -MaxRaw THEN Inf(-1)
  ELSE [k |-> "fin", v |-> raw]

\* An int converted to double (the usual arithmetic conversions).
FromInt(m) == Fin(m * Scale)

Zero == Fin(0)

Mag(m) == IF m < 0 THEN -m ELSE m

Sgn(m) == IF m > 0 THEN 1 ELSE IF m < 0 THEN -1 ELSE 0

IsNaN(a) == a.k = "nan"

\* The position of a non-NaN double on the extended real line.
Ord(a) == IF a.k = "inf" THEN a.v * (MaxRaw + 1) ELSE a.v

\* a < b, a > b, a == b on doubles: false whenever an operand is NaN.
Lt(a, b) == ~IsNaN(a) /\ ~IsNaN(b) /\ Ord(a) < Ord(b)

Gt(a, b) == ~IsNaN(a) /\ ~IsNaN(b) /\ Ord(a) > Ord(b)

Eq(a, b) == ~IsNaN(a) /\ ~IsNaN(b) /\ Ord(a) = Ord(b)

Neg(a) == IF a.k = "nan" THEN NaN ELSE [k |-> a.k, v |-> -a.v]

\* a + b
Add(a, b) ==
  IF IsNaN(a) \/ IsNaN(b) THEN NaN
  ELSE IF a.k = "inf" /\ b.k = "inf" THEN (IF a.v = b.v THEN a ELSE NaN)
  ELSE IF a.k = "inf" THEN a
  ELSE IF b.k = "inf" THEN b
  ELSE Fin(a.v + b.v)

\* a - b
Sub(a, b) == Add(a, Neg(b))

\* a * b.  A product beyond the finite range is recognised before it is
\* formed, so that no intermediate exceeds (MaxRaw + 1) * Scale.
Mul(a, b) ==
  IF IsNaN(a) \/ IsNaN(b) THEN NaN
  ELSE IF a.k = "inf" \/ b.k = "inf"
    THEN (IF a.v = 0 \/ b.v = 0 THEN NaN ELSE Inf(Sgn(a.v) * Sgn(b.v)))
  ELSE IF b.v # 0 /\ Mag(a.v) > ((MaxRaw + 1) * Scale) \div Mag(b.v)
    THEN Inf(Sgn(a.v) * Sgn(b.v))
  ELSE Fin(Sgn(a.v) * Sgn(b.v) * ((Mag(a.v) * Mag(b.v)) \div Scale))

\* a / b
Div(a, b) ==
  IF IsNaN(a) \/ IsNaN(b) THEN NaN
  ELSE IF a.k = "inf"
    THEN (IF b.k = "inf" THEN NaN
          ELSE Inf(a.v * (IF b.v < 0 THEN -1 ELSE 1)))
  ELSE IF b.k = "inf" THEN Zero
  ELSE IF b.v = 0 THEN (IF a.v = 0 THEN NaN ELSE Inf(Sgn(a.v)))
  ELSE Fin(Sgn(a.v) * Sgn(b.v) * ((Mag(a.v) * Scale) \div Mag(b.v)))

\* abs (a) on a double (std::abs from <cmath>).
Abs(a) == IF a.k = "nan" THEN NaN ELSE [k |-> a.k, v |-> Mag(a.v)]

RECURSIVE ISqrt(_, _, _)
\* The largest r in lo..hi with r * r <= m, by bisection.
ISqrt(m, lo, hi) ==
  IF lo >= hi THEN lo
  ELSE LET mid == (lo + hi + 1) \div 2
       IN IF mid * mid <= m THEN ISqrt(m, mid, hi) ELSE ISqrt(m, lo, mid - 1)

\* sqrt (a).  a.v * Scale is below 2^31, so the root is at most 2^15.
Sqrt(a) ==
  IF IsNaN(a) THEN NaN
  ELSE IF a.k = "inf" THEN (IF a.v > 0 THEN a ELSE NaN)
  ELSE IF a.v < 0 THEN NaN
  ELSE Fin(ISqrt(a.v * Scale, 0, 2 ^ 15))

RECURSIVE Pow(_, _)
\* pow (a, e) for a whole exponent e >= 1, by repeated multiplication.
Pow(a, e) == IF e = 1 THEN a ELSE Mul(Pow(a, e - 1), a)

RECURSIVE LtPow10(_, _, _)
\* p * 10^e < b for naturals p and b and any integer e, without forming 10^e.
LtPow10(p, e, b) ==
  IF e = 0 THEN p < b
  ELSE IF e > 0
    THEN (IF p >= b THEN FALSE
          ELSE IF p = 0 THEN TRUE
          ELSE LtPow10(p * 10, e - 1, b))
  ELSE (IF p < b THEN TRUE ELSE LtPow10(p, e + 1, b * 10))

\* a < 0.5 * pow (10, -digits).  The threshold lies below the resolution of
\* the number format for digits >= 2, so it is kept exactly, by its
\* exponent, and the comparison is made in integers:
\* v / Scale < 1 / (2 * 10^digits)  iff  2 * v * 10^digits < Scale.
LtTol(a, digits) ==
  IF IsNaN(a) THEN FALSE
  ELSE IF a.k = "inf" THEN a.v < 0
  ELSE a.v < 0 \/ LtPow10(2 * a.v, digits, Scale)

\* --------------------------------------------------- function and sign

\* function (x) = pow (x, 6) - 2
function(xv) == Sub(Pow(xv, 6), FromInt(2))

\* sign (x): 1, -1, or 0 for zero (and for NaN, which fails both tests).
sign(xv) == IF Gt(xv, Zero) THEN 1 ELSE IF Lt(xv, Zero) THEN -1 ELSE 0

\* --------------------------------------------------------------- state

VARIABLES
  pc,            \* position in main
  status,        \* "running", or the value main returned
  out,           \* what was written to cout / stdout, message by message
  table,         \* the rows printed by the table loop, in order
  x0, x1,        \* the initial edge points
  n,             \* tolerance digits
  usr_iters,     \* user iterations
  iters,         \* current iteration number
  tol,           \* the tolerance 0.5 * 10^(-tol), kept by its exponent
  s,             \* the value of the s formula
  find_root,     \* root find binary flag
  x, y, d, c,    \* the statistical tables (NULL: the empty function)
  arr_size,      \* size of the statistical arrays
  i,             \* the counter of the for loop in scope (0 outside a loop)
  heap,          \* the names of the malloc'ed blocks not yet freed
  iters_set,     \* whether iters has been assigned
  hist,          \* one record per executed iteration of the solve loop
  wrote,         \* <<table, index>> stored to by the seeding or the loop
  used           \* <<table, index>> read or written anywhere

vars ==
  << pc, status, out, table, x0, x1, n, usr_iters, iters, tol, s, find_root,
     x, y, d, c, arr_size, i, heap, iters_set, hist, wrote, used >>

Names == {"x", "y", "d", "c"}

NULL == << >>

\* What an uninitialized int or double, or malloc'ed memory, may hold.
GarbageInt == {-1, MaxUsrIters + 3}

GarbageDbl == {NaN, Fin(1)}

\* The values typed at the prompts.
EdgeInputs ==
  {Fin(-2 * Scale), Fin(-Scale), Fin(Scale), Fin(Scale + Scale \div 4),
   Fin(2 * Scale)}

ItersInputs == (1 .. MaxUsrIters) \cup {MAX_ITERATIONS + 1}

TolInputs == {0, 1, 2, MAX_TOLERANCES, MAX_TOLERANCES + 1}

MsgBanner == "Muller's root-finding arithmetic method."

MsgPromptX0 == "Input point x0: "

MsgPromptX1 == "Input point x1: "

MsgPromptIters == "Iterations: "

MsgPromptTol == "Tolerance: "

MsgSameEdges == "Values x0, x1 should be different."

MsgItersRange == "Iterations value: 2<i<=1000000"

MsgTolRange == "Tolerance value: 0<t<=40"

MsgAlloc == "Dynamic memory allocation problem"

MsgConverged == "Method has converged to a root."

MsgNotConverged == "Method it didn't reach the allowed tolerance."

MsgHeader == "|step]     |x]  |f(x)]  |d]  |c]"

\* a[k]; outside the block the read yields whatever lies there.
Load(a, k, g) == IF k \in DOMAIN a THEN a[k] ELSE g

\* a[k] = v; a store outside the block leaves the block itself as it was.
Store(a, k, v) == IF k \in DOMAIN a THEN [a EXCEPT ![k] = v] ELSE a

\* ---------------------------------------------------------- conditions
\* Each condition and index expression of main is an operator of its own;
\* beside some of them stands a variant with one plausible slip, against
\* which the properties below are tried.

\* x0 == x1
SameEdges(a, b) == Eq(a, b)

\* Slip: the lower limit tested with < 2.
BadItersOffByOne(u) == u < 2 \/ u > MAX_ITERATIONS

\* usr_iters <= 2 || usr_iters > MAX_ITERATIONS
BadIters(u) == u <= 2 \/ u > MAX_ITERATIONS

\* Slip: the lower limit tested with < 0.
BadTolOffByOne(t) == t < 0 \/ t > MAX_TOLERANCES

\* n <= 0 || n > MAX_TOLERANCES
BadTol(t) == t <= 0 \/ t > MAX_TOLERANCES

\* x == NULL || y == NULL || d == NULL || c == NULL
AllocFailed(px, py, pd, pc_) ==
  DOMAIN px = {} \/ DOMAIN py = {} \/ DOMAIN pd = {} \/ DOMAIN pc_ = {}

\* Slip: the loop bound tested with <=.
LoopCondInclusive(k, u) == k <= u

\* i < usr_iters
LoopCond(k, u) == k < u

\* Slips in the index algebra of the loop body.
CIdxTwoBack(k) == k - 2

DIdxOneBack(k) == k - 1

DiscIdxTwoBack(k) == k - 2

\* The slots iteration k of the solve loop touches.
CIdx(k) == k - 1

DIdx(k) == k - 2

\* The d slot read under the square root.
DiscIdx(k) == k

NextIdx(k) == k + 1

\* Slip: the inner test of find_root left out.
NotConvergedNoFlag(it, u, fr) == it >= u - 1

\* iters >= usr_iters-1, and then find_root == false
NotConverged(it, u, fr) == it >= u - 1 /\ fr = FALSE

\* Slip: the table bound tested with <.
RowCondStrict(k, it) == k < it

\* i <= iters
RowCond(k, it) == k <= it

\* ------------------------------------------------------------- actions

\* The state as main's declarations leave it: find_root is false, the four
\* pointers are NULL, and every other local holds whatever its storage held.
Init ==
  /\ pc = "edges"
  /\ status = "running"
  /\ out = << >>
  /\ table = << >>
  /\ \E gi \in GarbageInt, gd \in GarbageDbl :
       /\ x0 = gd /\ x1 = gd /\ s = gd
       /\ n = gi /\ usr_iters = gi /\ iters = gi /\ tol = gi /\ arr_size = gi
  /\ find_root = FALSE
  /\ x = NULL /\ y = NULL /\ d = NULL /\ c = NULL
  /\ i = 0
  /\ heap = {}
  /\ iters_set = FALSE
  /\ hist = << >>
  /\ wrote = {}
  /\ used = {}

\* The welcome message, the two edge points and their restriction.
ReadEdges ==
  /\ pc = "edges"
  /\ \E a \in EdgeInputs, b \in EdgeInputs :
       /\ x0' = a
       /\ x1' = b
       /\ IF SameEdges(a, b)
            THEN /\ out' = out \o <<MsgBanner, MsgPromptX0, MsgPromptX1,
                                    MsgSameEdges>>
                 /\ status' = "EXIT_FAILURE"
                 /\ pc' = "done"
            ELSE /\ out' = out \o <<MsgBanner, MsgPromptX0, MsgPromptX1>>
                 /\ status' = status
                 /\ pc' = "iters"
  /\ UNCHANGED << table, n, usr_iters, iters, tol, s, find_root, x, y, d, c,
                  arr_size, i, heap, iters_set, hist, wrote, used >>

\* The number of iterations and its restriction.
ReadIters ==
  /\ pc = "iters"
  /\ \E u \in ItersInputs :
       /\ usr_iters' = u
       /\ IF BadIters(u)
            THEN /\ out' = out \o <<MsgPromptIters, MsgItersRange>>
                 /\ status' = "EXIT_FAILURE"
                 /\ pc' = "done"
            ELSE /\ out' = Append(out, MsgPromptIters)
                 /\ status' = status
                 /\ pc' = "tol"
  /\ UNCHANGED << table, x0, x1, n, iters, tol, s, find_root, x, y, d, c,
                  arr_size, i, heap, iters_set, hist, wrote, used >>

\* The tolerance in digits and its restriction.
ReadTol ==
  /\ pc = "tol"
  /\ \E t \in TolInputs :
       /\ n' = t
       /\ IF BadTol(t)
            THEN /\ out' = out \o <<MsgPromptTol, MsgTolRange>>
                 /\ status' = "EXIT_FAILURE"
                 /\ pc' = "done"
            ELSE /\ out' = Append(out, MsgPromptTol)
                 /\ status' = status
                 /\ pc' = "alloc"
  /\ UNCHANGED << table, x0, x1, usr_iters, iters, tol, s, find_root, x, y,
                  d, c, arr_size, i, heap, iters_set, hist, wrote, used >>

\* The four malloc calls: each returns a block of arr_size doubles holding
\* anything, or NULL.
Allocate ==
  /\ pc = "alloc"
  /\ arr_size' = usr_iters + 1
  /\ \E ok \in SUBSET Names, g \in GarbageDbl :
       LET block(nm) ==
             IF nm \in ok THEN [k \in 0 .. arr_size' - 1 |-> g] ELSE NULL
       IN /\ x' = block("x")
          /\ y' = block("y")
          /\ d' = block("d")
          /\ c' = block("c")
          /\ heap' = ok
  /\ pc' = "allocated"
  /\ UNCHANGED << status, out, table, x0, x1, n, usr_iters, iters, tol, s,
                  find_root, i, iters_set, hist, wrote, used >>

\* The check for allocation problems.
CheckAlloc ==
  /\ pc = "allocated"
  /\ IF AllocFailed(x, y, d, c)
       THEN /\ out' = Append(out, MsgAlloc)
            /\ status' = "EXIT_FAILURE"
            /\ pc' = "done"
       ELSE /\ out' = out
            /\ status' = status
            /\ pc' = "zero"
  /\ UNCHANGED << table, x0, x1, n, usr_iters, iters, tol, s, find_root,
                  x, y, d, c, arr_size, i, heap, iters_set, hist, wrote,
                  used >>

\* for (int i = 0; i < arr_size; ++i) x[i] = y[i] = d[i] = c[i] = 0;
ZeroInit ==
  /\ pc = "zero"
  /\ LET idx == {k \in 0 .. arr_size : k < arr_size}
         zeroed(a) == [k \in DOMAIN a |-> IF k \in idx THEN Zero ELSE a[k]]
     IN /\ x' = zeroed(x)
        /\ y' = zeroed(y)
        /\ d' = zeroed(d)
        /\ c' = zeroed(c)
        /\ used' = used \cup (Names \X idx)
  /\ pc' = "seed"
  /\ UNCHANGED << status, out, table, x0, x1, n, usr_iters, iters, tol, s,
                  find_root, arr_size, i, heap, iters_set, hist, wrote >>

\* The tolerance, the edge points, the center point, their f(x) values and
\* the initial c formula.
Seed ==
  /\ pc = "seed"
  /\ tol' = n
  /\ \E g \in GarbageDbl :
       LET xa == Store(x, 0, x0)
           xb == Store(xa, 1, x1)
           xc == Store(xb, 2, Div(Add(Load(xb, 0, g), Load(xb, 1, g)),
                                  FromInt(2)))
           ya == Store(y, 0, function(Load(xc, 0, g)))
           yb == Store(ya, 1, function(Load(xc, 1, g)))
           yc == Store(yb, 2, function(Load(xc, 2, g)))
           ca == Store(c, 0, Div(Sub(Load(yc, 1, g), Load(yc, 0, g)),
                                 Sub(Load(xc, 1, g), Load(xc, 0, g))))
       IN /\ x' = xc
          /\ y' = yc
          /\ c' = ca
  /\ wrote' = wrote \cup ({"x", "y"} \X {0, 1, 2}) \cup {<<"c", 0>>}
  /\ used' = used \cup ({"x", "y"} \X {0, 1, 2}) \cup {<<"c", 0>>}
  /\ i' = 2
  /\ pc' = "loop"
  /\ UNCHANGED << status, out, table, x0, x1, n, usr_iters, iters, s,
                  find_root, d, arr_size, heap, iters_set, hist >>

\* One pass of the body of the solve loop.
Iterate ==
  /\ pc = "loop"
  /\ LoopCond(i, usr_iters)
  /\ iters' = i
  /\ iters_set' = TRUE
  /\ \E g \in GarbageDbl :
       LET ci == CIdx(i)
           di == DIdx(i)
           ri == DiscIdx(i)
           ni == NextIdx(i)
           c1 == Store(c, ci,
                       Div(Sub(Load(y, i - 0, g), Load(y, i - 1, g)),
                           Sub(Load(x, i, g), Load(x, i - 1, g))))
           d1 == Store(d, di,
                       Div(Sub(Load(c1, i - 1, g), Load(c1, i - 2, g)),
                           Sub(Load(x, i, g), Load(x, i - 2, g))))
           s1 == Add(Load(c1, i - 1, g),
                     Mul(Sub(Load(x, i, g), Load(x, i - 1, g)),
                         Load(d1, i - 2, g)))
           root == Sqrt(Abs(Sub(Pow(s1, 2),
                                Mul(Mul(FromInt(4), Load(y, i, g)),
                                    Load(d1, ri, g)))))
           x2 == Store(x, ni,
                       Sub(Load(x, i, g),
                           Div(Mul(FromInt(2), Load(y, i, g)),
                               Add(s1, Mul(FromInt(sign(s1)), root)))))
           y2 == Store(y, ni, function(Load(x2, i + 1, g)))
           conv == LtTol(Abs(Sub(Load(x2, i + 1, g), Load(x2, i, g))), tol)
       IN /\ c' = c1
          /\ d' = d1
          /\ s' = s1
          /\ x' = x2
          /\ y' = y2
          /\ hist' = Append(hist, [i |-> i, conv |-> conv, dslot |-> ri,
                                   dval |-> Load(d1, ri, g),
                                   dprior |-> <<"d", ri>> \in wrote])
          /\ IF conv
               THEN /\ out' = Append(out, MsgConverged)
                    /\ find_root' = TRUE
                    /\ i' = i
                    /\ pc' = "check"
               ELSE /\ out' = out
                    /\ find_root' = find_root
                    /\ i' = i + 1
                    /\ pc' = "loop"
          /\ wrote' = wrote \cup {<<"c", ci>>, <<"d", di>>, <<"x", ni>>,
                                  <<"y", ni>>}
          /\ used' = used \cup ({"x"} \X {i - 2, i - 1, i, ni})
                          \cup ({"y"} \X {i - 1, i, ni})
                          \cup ({"c"} \X {ci, i - 1, i - 2})
                          \cup ({"d"} \X {di, i - 2, ri})
  /\ UNCHANGED << status, table, x0, x1, n, usr_iters, tol, arr_size, heap >>

\* The loop condition fails: the loop is left.
LoopExit ==
  /\ pc = "loop"
  /\ ~LoopCond(i, usr_iters)
  /\ pc' = "check"
  /\ UNCHANGED << status, out, table, x0, x1, n, usr_iters, iters, tol, s,
                  find_root, x, y, d, c, arr_size, i, heap, iters_set, hist,
                  wrote, used >>

\* The check why the loop ended, and the header titles.
CheckEnd ==
  /\ pc = "check"
  /\ out' = IF NotConverged(iters, usr_iters, find_root)
              THEN out \o <<MsgNotConverged, MsgHeader>>
              ELSE Append(out, MsgHeader)
  /\ i' = 0
  /\ pc' = "rows"
  /\ UNCHANGED << status, table, x0, x1, n, usr_iters, iters, tol, s,
                  find_root, x, y, d, c, arr_size, heap, iters_set, hist,
                  wrote, used >>

\* One row of the statistical data.
PrintRow ==
  /\ pc = "rows"
  /\ RowCond(i, iters)
  /\ \E g \in GarbageDbl :
       table' = Append(table, [step |-> i + 1, idx |-> i,
                               x |-> Load(x, i, g), y |-> Load(y, i, g),
                               d |-> Load(d, i, g), c |-> Load(c, i, g)])
  /\ used' = used \cup (Names \X {i})
  /\ i' = i + 1
  /\ UNCHANGED << pc, status, out, x0, x1, n, usr_iters, iters, tol, s,
                  find_root, x, y, d, c, arr_size, heap, iters_set, hist,
                  wrote >>

\* The table is complete: the four blocks are freed and main returns.
Finish ==
  /\ pc = "rows"
  /\ ~RowCond(i, iters)
  /\ heap' = heap \ Names
  /\ status' = "EXIT_SUCCESS"
  /\ pc' = "done"
  /\ UNCHANGED << out, table, x0, x1, n, usr_iters, iters, tol, s, find_root,
                  x, y, d, c, arr_size, i, iters_set, hist, wrote, used >>

Next ==
  \/ ReadEdges
  \/ ReadIters
  \/ ReadTol
  \/ Allocate
  \/ CheckAlloc
  \/ ZeroInit
  \/ Seed
  \/ Iterate
  \/ LoopExit
  \/ CheckEnd
  \/ PrintRow
  \/ Finish

Spec == Init /\ [][Next]_vars

\* ------------------------------------------------------------- claims

Printed(m) == \E k \in 1 .. Len(out) : out[k] = m

Count(m) == Cardinality({k \in 1 .. Len(out) : out[k] = m})

\* The run was accepted, solved and has reached the table.
AtTable == pc = "rows" \/ (pc = "done" /\ status = "EXIT_SUCCESS")

\* The test of the tolerance succeeded in some executed iteration.
Converged == \E k \in 1 .. Len(hist) : hist[k].conv

\* The index of the last executed iteration of the solve loop.
LastStep == hist[Len(hist)].i

Prompts3 == <<MsgBanner, MsgPromptX0, MsgPromptX1>>

\* C1: when no allocation fails, main returns EXIT_FAILURE exactly when
\* x0 equals x1, or the iterations read are not in 2 < i <= 1000000, or the
\* tolerance digits read are not in 0 < t <= 40; the first violated check
\* prints its message last, with no later prompt, no solve, no outcome
\* message and no table; every other run returns EXIT_SUCCESS.
C1_FailureIffInvalid ==
  (pc = "done" /\ ~Printed(MsgAlloc)) =>
    LET badEdges == x0 = x1
        badIters == /\ ~badEdges
                    /\ (usr_iters <= 2 \/ usr_iters > 1000000)
        badTol == /\ ~badEdges
                  /\ ~badIters
                  /\ (n <= 0 \/ n > 40)
        rejected == badEdges \/ badIters \/ badTol
    IN /\ status = (IF rejected THEN "EXIT_FAILURE" ELSE "EXIT_SUCCESS")
       /\ badEdges => out = Prompts3 \o <<MsgSameEdges>>
       /\ badIters => out = Prompts3 \o <<MsgPromptIters, MsgItersRange>>
       /\ badTol => out = Prompts3 \o <<MsgPromptIters, MsgPromptTol,
                                        MsgTolRange>>
       /\ rejected => (table = << >> /\ hist = << >> /\ wrote = {})
       /\ ~rejected => (Printed(MsgHeader) /\ hist # << >>)

\* A run rejected by the third check, after passing the first two.
C1_Witness ==
  /\ pc = "done"
  /\ status = "EXIT_FAILURE"
  /\ x0 # x1
  /\ usr_iters = 3
  /\ n = 41
  /\ out[Len(out)] = MsgTolRange

\* C2: once the header is printed, exactly one outcome message has been
\* printed, and it is the message just before the header: the convergence
\* message iff the tolerance test succeeded in some executed iteration,
\* which is then the last one executed; the other message iff the loop ran
\* through i = usr_iters - 1 and the test never succeeded.
C2_ExactlyOneOutcome ==
  AtTable =>
    /\ Count(MsgConverged) + Count(MsgNotConverged) = 1
    /\ Count(MsgHeader) = 1
    /\ out[Len(out)] = MsgHeader
    /\ out[Len(out) - 1] \in {MsgConverged, MsgNotConverged}
    /\ Printed(MsgConverged) <=> Converged
    /\ Converged =>
         /\ hist[Len(hist)].conv
         /\ \A k \in 1 .. Len(hist) - 1 : ~hist[k].conv
    /\ Printed(MsgNotConverged) <=> (LastStep = usr_iters - 1 /\ ~Converged)

\* Convergence in the boundary iteration i = usr_iters - 1, after others.
C2_Witness ==
  /\ pc = "done"
  /\ status = "EXIT_SUCCESS"
  /\ Len(hist) >= 3
  /\ hist[Len(hist)].conv
  /\ LastStep = usr_iters - 1

\* C3: when main returns after the table, the rows printed are those of the
\* indices 0 .. LastStep, in order, numbered 1 .. LastStep + 1; there are
\* never usr_iters + 1 of them, and there are usr_iters of them only when
\* the last possible iteration ran (convergence there, or none at all).
C3_RowCount ==
  (pc = "done" /\ status = "EXIT_SUCCESS") =>
    /\ Len(table) = LastStep + 1
    /\ \A k \in 1 .. Len(table) : table[k].step = k /\ table[k].idx = k - 1
    /\ Len(table) = usr_iters + 1 =>
         (hist[Len(hist)].conv /\ LastStep = usr_iters - 1) \/ ~Converged
    /\ Len(table) >= usr_iters =>
         /\ Len(table) = usr_iters
         /\ LastStep = usr_iters - 1

\* An early convergence: fewer rows than iterations were allowed.
C3_Witness ==
  /\ pc = "done"
  /\ status = "EXIT_SUCCESS"
  /\ Converged
  /\ Len(hist) >= 2
  /\ Len(table) < usr_iters

\* C4: from the end of the seeding until the table is printed, x[0] = x0,
\* x[1] = x1, x[2] = (x0 + x1) / 2, y[k] = f(x[k]) for k = 0, 1, 2 and
\* c[0] = (y[1] - y[0]) / (x[1] - x[0]).
C4_SeedsKept ==
  pc \in {"loop", "check", "rows"} =>
    /\ x[0] = x0
    /\ x[1] = x1
    /\ x[2] = Div(Add(x0, x1), FromInt(2))
    /\ \A k \in {0, 1, 2} : y[k] = function(x[k])
    /\ c[0] = Div(Sub(y[1], y[0]), Sub(x[1], x[0]))

\* The table is being printed after four or more iterations ran.
C4_Witness ==
  /\ pc = "rows"
  /\ Len(hist) >= 4
  /\ Len(table) >= 3

\* C5: whenever main has returned, no malloc'ed block is left unfreed.
C5_AllReleased == pc = "done" => heap = {}

\* C7: in the table, a d or c entry that neither the seeding nor the loop
\* stored to is printed as zero; the loop stored to d at 0 .. LastStep - 2
\* only and, with the seeding, to c at 0 .. LastStep - 1 only; so the d
\* entries of the last two rows and the c entry of the last row are zero.
C7_UnwrittenPrintedZero ==
  AtTable =>
    /\ \A k \in 1 .. Len(table) :
         /\ <<"d", table[k].idx>> \notin wrote => table[k].d = Zero
         /\ <<"c", table[k].idx>> \notin wrote => table[k].c = Zero
    /\ {w[2] : w \in {v \in wrote : v[1] = "d"}} = 0 .. LastStep - 2
    /\ {w[2] : w \in {v \in wrote : v[1] = "c"}} = 0 .. LastStep - 1
    /\ \A k \in 1 .. Len(table) :
         /\ table[k].idx >= LastStep - 1 => table[k].d = Zero
         /\ table[k].idx = LastStep => table[k].c = Zero

\* A complete table whose earlier rows hold computed d and c entries.
C7_Witness ==
  /\ pc = "done"
  /\ status = "EXIT_SUCCESS"
  /\ Len(table) >= 5
  /\ table[1].d # Zero
  /\ table[2].c # Zero
  /\ table[Len(table)].c = Zero

\* C8 as stated: in every executed iteration i, the d[i] read under the
\* square root had been stored to by an earlier iteration.
C8_ReadWasWritten == \A k \in 1 .. Len(hist) : hist[k].dprior

\* C8, amended: in every executed iteration i, the slot read under the
\* square root is d[i], which no iteration has stored to yet (iteration k
\* stores d[k - 2]), and the value read is the zero of the initialization.
C8_ReadIsInitialZero ==
  \A k \in 1 .. Len(hist) :
    /\ hist[k].dslot = hist[k].i
    /\ ~hist[k].dprior
    /\ hist[k].dval = Zero

\* Five iterations have run, the earlier ones having stored d[0 .. 2].
C8_Witness ==
  /\ Len(hist) >= 5
  /\ {<<"d", 0>>, <<"d", 1>>, <<"d", 2>>} \subseteq wrote
  /\ d[0] # Zero

\* C9: every index used on x, y, d or c, by the initialization, the
\* seeding, the loop or the table, lies in 0 .. usr_iters, inside the block
\* of usr_iters + 1 doubles that was allocated.
C9_IndicesInBounds ==
  /\ \A u \in used : u[2] >= 0 /\ u[2] <= usr_iters
  /\ used # {} =>
       /\ arr_size = usr_iters + 1
       /\ \A a \in {x, y, d, c} : DOMAIN a = 0 .. usr_iters

\* A run that never converged: the top slot usr_iters was stored to.
C9_Witness ==
  /\ pc = "done"
  /\ status = "EXIT_SUCCESS"
  /\ ~Converged
  /\ <<"x", usr_iters>> \in used
  /\ <<"d", 0>> \in used

\* C10: where iters is read (the check after the loop, the table loop) it
\* has been assigned, 2 <= iters <= usr_iters - 1, and the loop body has
\* run at least once and at most usr_iters - 2 times.
C10_ItersAssigned ==
  pc \in {"check", "rows"} =>
    /\ iters_set
    /\ iters >= 2
    /\ iters <= usr_iters - 1
    /\ Len(hist) >= 1
    /\ Len(hist) <= usr_iters - 2
    /\ iters = LastStep

\* The smallest accepted count: the body ran exactly once.
C10_Witness ==
  /\ pc = "check"
  /\ usr_iters = 3
  /\ Len(hist) = 1
  /\ iters = 2

====
